---- MODULE Spec2Model ----
(***************************************************************************)
(* Model of the mixture-of-experts block, the checkpoint loader and the    *)
(* QuIP quantized linear method of vllm-gptq:                              *)
(*   src/vllm/model_executor/models/qwen2_moe.py                           *)
(*   src/vllm/model_executor/layers/quantization/quip.py                   *)
(*                                                                         *)
(* Tensors are modelled row by row with integer entries (one number per    *)
(* token); floating point rounding is not modelled.  Parameter names are   *)
(* sequences of tokens (see the section on load_weights).                  *)
(***************************************************************************)
EXTENDS Integers, Sequences, FiniteSets, TLC

\* ------------------------------------------------------------------ bounds
MaxExperts == 8        \* config.num_experts in the construction runs
MaxRanks == 3          \* tensor parallel world size
MaxFwdExperts == 2     \* config.num_experts in the forward runs
MaxTopK == 2           \* config.num_experts_per_tok
MaxTokens == 1         \* rows of hidden_states in one forward call
MaxStream == 2         \* entries of a checkpoint stream drawn freely
MaxIn == 9             \* input_size of a quantized linear layer
MaxOut == 3            \* output_size of a quantized linear layer
MaxRows == 33          \* rows of a two-dimensional x
MaxBatch == 4          \* first dimension of a three-dimensional x
MaxSeq == 8            \* second dimension of a three-dimensional x
MaxValIn == 9          \* input_size of a store whose contents are modelled
MaxValOut == 3         \* output_size of a store whose contents are modelled
MaxCalls == 2          \* apply_weights calls made on one store
SmallBatch == 1        \* rows of x in a latency-regime call
LargeBatch == 64       \* rows of x in a throughput-regime call

None == "None"
NoList == <<-1>>       \* an expert list that is not assigned (ids are >= 0)
NoTensor == <<>>       \* a tensor that is None (a tensor has >= 1 rows)

VARIABLES
    cfg,                \* model config, linear method and parallel context
    ipc,                \* rank -> position in Qwen2MoeSparseMoeBlock.__init__
    created,            \* rank -> set of sub-modules the constructor has built
    expert_indicies,    \* rank -> self.expert_indicies (NoList until assigned)
    fpc,                \* rank -> position in Qwen2MoeSparseMoeBlock.forward
    selected_experts,   \* token -> slot -> expert id (output of fused_topk)
    final_hidden_states,\* rank -> token -> value (None before the call)
    ar_buf,             \* rank -> tensor handed to the all-reduce (None if absent)
    n_allreduce,        \* rank -> number of all-reduce calls issued
    stream,             \* checkpoint stream of load_weights
    params_dict,        \* load_weights' dict(self.named_parameters()), its keys
    expert_params_mapping, \* load_weights' table of per-expert rows
    pos,                \* number of stream entries consumed
    trace,              \* per consumed entry: what load_weights did with it
    load_failed,        \* load_weights raised
    qarg,               \* arguments of create_weights / apply_weights
    weights,            \* the dict returned by create_weights (None before)
    qout,               \* what apply_weights did (None before)
    qvals,              \* contents of the store's tensors, of one row of x, of bias
    qlog                \* results of the apply_weights calls made on the store

ctorVars == <<ipc, created, expert_indicies>>
fwdVars == <<fpc, selected_experts, final_hidden_states, ar_buf, n_allreduce>>
loadVars == <<stream, params_dict, expert_params_mapping, pos, trace, load_failed>>
quipVars == <<qarg, weights, qout, qvals, qlog>>
vars == <<cfg, ctorVars, fwdVars, loadVars, quipVars>>

\* ------------------------------------------------------------- helpers
RECURSIVE SumTo(_, _)
\* sum of f(i) for i in 1..n, f given as a sequence/function on 1..n
SumTo(f, n) == IF n = 0 THEN 0 ELSE f[n] + SumTo(f, n - 1)

Ranks(c) == 0 .. (c.tp_size - 1)
Experts(c) == 0 .. (c.num_experts - 1)

\* "not isinstance(linear_method, UnquantizedLinearMethod) and
\*  not linear_method.quant_config.support_fused_moe()"
\* (a linear_method of None is replaced by UnquantizedLinearMethod first)
DenseMode(c) == c.linear_method = "nonfused"

LinearMethods == {None, "fused", "nonfused"}

\* ------------------------------------------- Qwen2MoeSparseMoeBlock.__init__
\* a plausible slip: the remainder goes to the last sections
MutSectionSize(n, R, i) == (n \div R) + (IF i >= R - (n % R) THEN 1 ELSE 0)

\* np.array_split(range(n), R): the first n % R sections have n // R + 1
\* elements, the others n // R.
SectionSize(n, R, i) == (n \div R) + (IF i < n % R THEN 1 ELSE 0)

RECURSIVE DivPoint(_, _, _)
DivPoint(n, R, i) == IF i = 0 THEN 0
                     ELSE DivPoint(n, R, i - 1) + SectionSize(n, R, i - 1)

\* np.array_split(range(n), R)[r].tolist()
ArraySplit(n, R, r) ==
    [k \in 1 .. SectionSize(n, R, r) |-> DivPoint(n, R, r) + k - 1]

\* a plausible slip: the comparison is off by one
MutTooManyRanks(c) == c.tp_size > c.num_experts + 1

\* line 145: if self.tp_size > self.n_routed_experts: raise ValueError
TooManyRanks(c) == c.tp_size > c.num_experts

CtorConfigs ==
    [num_experts : 1 .. MaxExperts, tp_size : 1 .. MaxRanks,
     linear_method : LinearMethods, shared : BOOLEAN,
     top_k : {1}, moe_layer : {TRUE}, rank : {0}]

\* lines 138-148
InitCheck(r) ==
    /\ ipc[r] = "start"
    /\ ipc' = [ipc EXCEPT ![r] = IF TooManyRanks(cfg) THEN "error" ELSE "checked"]
    /\ UNCHANGED <<created, expert_indicies>>
    /\ UNCHANGED <<cfg, fwdVars, loadVars, quipVars>>

\* lines 150-157
InitGate(r) ==
    /\ ipc[r] = "checked"
    /\ ipc' = [ipc EXCEPT ![r] = "gate"]
    /\ created' = [created EXCEPT ![r] = @ \cup {"gate"}]
    /\ UNCHANGED expert_indicies
    /\ UNCHANGED <<cfg, fwdVars, loadVars, quipVars>>

\* lines 158-170
InitShared(r) ==
    /\ ipc[r] = "gate"
    /\ ipc' = [ipc EXCEPT ![r] = "shared"]
    /\ created' = [created EXCEPT ![r] =
                     @ \cup (IF cfg.shared THEN {"shared_expert"} ELSE {})
                       \cup {"shared_expert_gate"}]
    /\ UNCHANGED expert_indicies
    /\ UNCHANGED <<cfg, fwdVars, loadVars, quipVars>>

\* lines 172-199
InitExperts(r) ==
    /\ ipc[r] = "shared"
    /\ IF DenseMode(cfg)
       THEN LET idx == ArraySplit(cfg.num_experts, cfg.tp_size, r) IN
            /\ expert_indicies' = [expert_indicies EXCEPT ![r] = idx]
            /\ IF idx = <<>>
               THEN /\ ipc' = [ipc EXCEPT ![r] = "error"]
                    /\ UNCHANGED created
               ELSE /\ ipc' = [ipc EXCEPT ![r] = "done"]
                    /\ created' = [created EXCEPT ![r] = @ \cup {"experts"}]
       ELSE /\ ipc' = [ipc EXCEPT ![r] = "done"]
            /\ created' = [created EXCEPT ![r] = @ \cup {"w1", "w2"}]
            /\ UNCHANGED expert_indicies
    /\ UNCHANGED <<cfg, fwdVars, loadVars, quipVars>>

IdleFwd ==
    /\ fpc = <<>>
    /\ selected_experts = <<>>
    /\ final_hidden_states = <<>>
    /\ ar_buf = <<>>
    /\ n_allreduce = <<>>

IdleLoad ==
    /\ stream = <<>>
    /\ params_dict = {}
    /\ expert_params_mapping = <<>>
    /\ pos = 0
    /\ trace = <<>>
    /\ load_failed = FALSE

NoArgs == [made |-> FALSE]
NoWeights == [made |-> FALSE, error |-> FALSE]
NoOutput == [done |-> FALSE]
NoValues == [filled |-> FALSE]

IdleQuip ==
    /\ qarg = NoArgs
    /\ weights = NoWeights
    /\ qout = NoOutput
    /\ qvals = NoValues
    /\ qlog = <<>>

CtorInit ==
    /\ cfg \in CtorConfigs
    /\ ipc = [r \in Ranks(cfg) |-> "start"]
    /\ created = [r \in Ranks(cfg) |-> {}]
    /\ expert_indicies = [r \in Ranks(cfg) |-> NoList]
    /\ IdleFwd /\ IdleLoad /\ IdleQuip

CtorNext ==
    \/ \E r \in Ranks(cfg) : InitCheck(r)
    \/ \E r \in Ranks(cfg) : InitGate(r)
    \/ \E r \in Ranks(cfg) : InitShared(r)
    \/ \E r \in Ranks(cfg) : InitExperts(r)

SpecCtor == CtorInit /\ [][CtorNext]_vars

\* ---------------------------------------------------------------- C1, C2
AssignedRanks == {r \in Ranks(cfg) : expert_indicies[r] # NoList}

\* C1: in the non-fused path the shards assigned to the ranks are non-empty
\* ascending runs of consecutive expert ids, rank r's run lies before rank
\* r+1's, no expert id is in two shards, once every rank is constructed every
\* expert id is in exactly one shard, and the shard sizes differ by at most
\* one with exactly the first (nExperts mod nRanks) ranks holding the larger
\* size.
C1_PartitionBalanced ==
    LET n == cfg.num_experts
        R == cfg.tp_size
        S == expert_indicies
    IN  /\ \A r \in AssignedRanks :
              /\ Len(S[r]) >= 1
              /\ \A k \in 1 .. Len(S[r]) : S[r][k] \in Experts(cfg)
              /\ \A k \in 2 .. Len(S[r]) : S[r][k] = S[r][k - 1] + 1
        /\ \A r, s \in AssignedRanks :
              r < s =>
                /\ S[r][Len(S[r])] < S[s][1]
                /\ Len(S[s]) <= Len(S[r])
                /\ Len(S[r]) <= Len(S[s]) + 1
        /\ (AssignedRanks = Ranks(cfg) /\ DenseMode(cfg) /\ ~TooManyRanks(cfg)) =>
              /\ \A e \in Experts(cfg) :
                    Cardinality({r \in Ranks(cfg) :
                        \E k \in 1 .. Len(S[r]) : S[r][k] = e}) = 1
              /\ \A r \in Ranks(cfg) :
                    (r < n % R) <=> (Len(S[r]) * R > n)

C1_Witness ==
    /\ cfg.num_experts = 8 /\ cfg.tp_size = 3
    /\ \A r \in Ranks(cfg) : ipc[r] = "done" /\ expert_indicies[r] # NoList
    /\ Len(expert_indicies[0]) = 3
    /\ Len(expert_indicies[1]) = 3
    /\ Len(expert_indicies[2]) = 2

\* C2: with more ranks than experts no rank gets past the check of the
\* constructor: every rank is either not yet started or failed, and has
\* created no gate, shared expert, expert list or fused weight container.
C2_TooManyRanksFails ==
    cfg.tp_size > cfg.num_experts =>
        \A r \in Ranks(cfg) :
            /\ ipc[r] \in {"start", "error"}
            /\ created[r] = {}
            /\ expert_indicies[r] = NoList

C2_Witness ==
    /\ cfg.tp_size > cfg.num_experts
    /\ \A r \in Ranks(cfg) : ipc[r] = "error"

\* ------------------------------------------- Qwen2MoeSparseMoeBlock.forward
Tokens == 1 .. MaxTokens
Slots(c) == 1 .. c.top_k

\* routing_weights[t][k] as returned by fused_topk: positive, descending in k
RoutingWeight(t, k) == (cfg.top_k - k + 1) + (t - 1)

\* expert_layer(hidden_states)[t] for expert e (Qwen2MoeExpertMLP.forward;
\* ReplicatedLinear projections, the same value on every rank)
ExpertLayer(e, t) == 10 * (e + 1) + t

\* F.sigmoid(self.shared_expert_gate(hidden_states))[t]
SharedGateSigmoid(t) == t + 1

\* self.shared_expert(hidden_states)[t] on rank r: Qwen2MoeMLP built with
\* reduce_results=False, so with tp_size > 1 each rank holds a partial sum of
\* the row-parallel down projection
SharedExpertPartial(r, t) == 3 * (r + 1) + t

\* the shared MLP over the whole intermediate dimension
SharedExpert(t) ==
    SumTo([i \in 1 .. cfg.tp_size |-> SharedExpertPartial(i - 1, t)], cfg.tp_size)

\* a plausible slip: the shared MLP reduces its own output (reduce_results
\* left at its default), so every rank holds the full shared output
MutSharedOutput(r) ==
    IF cfg.shared
    THEN [t \in Tokens |-> SharedGateSigmoid(t) * SharedExpert(t)]
    ELSE NoTensor

\* lines 204-209
SharedOutput(r) ==
    IF cfg.shared
    THEN [t \in Tokens |-> SharedGateSigmoid(t) * SharedExpertPartial(r, t)]
    ELSE NoTensor

\* a plausible slip: only the first top-k slot is compared with the expert id
MutExpertWeights(e, t) ==
    RoutingWeight(t, 1) * (IF selected_experts[t][1] = e THEN 1 ELSE 0)

\* lines 224-226: (routing_weights * (selected_experts == expert_idx)).sum(-1)
ExpertWeights(e, t) ==
    SumTo([k \in Slots(cfg) |->
             RoutingWeight(t, k) * (IF selected_experts[t][k] = e THEN 1 ELSE 0)],
          cfg.top_k)

\* a plausible slip: an expert no token selected is skipped, so the
\* accumulator stays None on a rank none of whose experts was selected
RECURSIVE MutDenseLoop(_, _, _)
MutDenseLoop(idx, i, acc) ==
    IF i > Len(idx) THEN acc
    ELSE LET current_hidden_states ==
                 [t \in Tokens |-> ExpertLayer(idx[i], t) * ExpertWeights(idx[i], t)]
         IN  IF \A t \in Tokens : ExpertWeights(idx[i], t) = 0
             THEN MutDenseLoop(idx, i + 1, acc)
             ELSE MutDenseLoop(idx, i + 1,
                     IF acc = NoTensor THEN current_hidden_states
                     ELSE [t \in Tokens |-> acc[t] + current_hidden_states[t]])

\* lines 221-233: the loop over self.expert_indicies, from position i on,
\* with the accumulator acc (NoTensor is None)
RECURSIVE DenseLoop(_, _, _)
DenseLoop(idx, i, acc) ==
    IF i > Len(idx) THEN acc
    ELSE LET current_hidden_states ==
                 [t \in Tokens |-> ExpertLayer(idx[i], t) * ExpertWeights(idx[i], t)]
         IN  DenseLoop(idx, i + 1,
                 IF acc = NoTensor THEN current_hidden_states
                 ELSE [t \in Tokens |-> acc[t] + current_hidden_states[t]])

\* lines 235-242: apply_moe_weights on the rank's shards of w1 and w2; the
\* ranks' results add up to the routed sum over all experts
FusedMoe(r) ==
    [t \in Tokens |->
        SumTo([k \in Slots(cfg) |->
                 RoutingWeight(t, k) *
                   (IF r = 0
                    THEN ExpertLayer(selected_experts[t][k], t) - (cfg.tp_size - 1)
                    ELSE 1)], cfg.top_k)]

\* a plausible slip: a rank none of whose experts was selected skips the
\* collective
MutNeedsAllReduce(r) ==
    /\ cfg.tp_size > 1
    /\ (DenseMode(cfg) =>
          \E t \in Tokens, k \in Slots(cfg), i \in 1 .. Len(expert_indicies[r]) :
              selected_experts[t][k] = expert_indicies[r][i])

\* line 247: if self.tp_size > 1
NeedsAllReduce(r) == cfg.tp_size > 1

FwdConfigs ==
    {c \in [num_experts : 1 .. MaxFwdExperts, tp_size : 1 .. MaxRanks,
            linear_method : LinearMethods, shared : BOOLEAN,
            top_k : 1 .. MaxTopK, moe_layer : {TRUE}, rank : {0}] :
        /\ ~TooManyRanks(c)
        /\ c.top_k <= c.num_experts}

\* lines 201-245: shared expert, gate, routing, experts, sum
ForwardCall(r) ==
    /\ fpc[r] = "idle"
    /\ LET shared_output == SharedOutput(r)
           routed == IF DenseMode(cfg)
                     THEN DenseLoop(expert_indicies[r], 1, NoTensor)
                     ELSE FusedMoe(r)
       IN  IF shared_output # NoTensor /\ routed = NoTensor
           THEN \* None + tensor raises
                /\ fpc' = [fpc EXCEPT ![r] = "crashed"]
                /\ UNCHANGED final_hidden_states
           ELSE /\ fpc' = [fpc EXCEPT ![r] = "reduce"]
                /\ final_hidden_states' =
                     [final_hidden_states EXCEPT ![r] =
                        IF shared_output # NoTensor
                        THEN [t \in Tokens |-> routed[t] + shared_output[t]]
                        ELSE routed]
    /\ UNCHANGED <<selected_experts, ar_buf, n_allreduce>>
    /\ UNCHANGED <<cfg, ctorVars, loadVars, quipVars>>

\* lines 247-251: enter tensor_model_parallel_all_reduce, or return at once
ForwardReduce(r) ==
    /\ fpc[r] = "reduce"
    /\ IF NeedsAllReduce(r)
       THEN /\ ar_buf' = [ar_buf EXCEPT ![r] = final_hidden_states[r]]
            /\ n_allreduce' = [n_allreduce EXCEPT ![r] = @ + 1]
            /\ fpc' = [fpc EXCEPT ![r] = "blocked"]
       ELSE /\ fpc' = [fpc EXCEPT ![r] =
                         IF final_hidden_states[r] = NoTensor
                         THEN "crashed" ELSE "done"]
            /\ UNCHANGED <<ar_buf, n_allreduce>>
    /\ UNCHANGED <<selected_experts, final_hidden_states>>
    /\ UNCHANGED <<cfg, ctorVars, loadVars, quipVars>>

\* the all-reduce completes on rank r once every rank of the group has
\* entered it; lines 248-251
AllReduceComplete(r) ==
    /\ fpc[r] = "blocked"
    /\ \A s \in Ranks(cfg) : ar_buf[s] # NoTensor
    /\ final_hidden_states' =
         [final_hidden_states EXCEPT ![r] =
            [t \in Tokens |->
               SumTo([i \in 1 .. cfg.tp_size |-> ar_buf[i - 1][t]], cfg.tp_size)]]
    /\ fpc' = [fpc EXCEPT ![r] = "done"]
    /\ UNCHANGED <<selected_experts, ar_buf, n_allreduce>>
    /\ UNCHANGED <<cfg, ctorVars, loadVars, quipVars>>

\* the state Qwen2MoeSparseMoeBlock.__init__ leaves on rank r
Constructed(c, r) ==
    [created |-> {"gate", "shared_expert_gate"}
                   \cup (IF c.shared THEN {"shared_expert"} ELSE {})
                   \cup (IF DenseMode(c) THEN {"experts"} ELSE {"w1", "w2"}),
     expert_indicies |-> IF DenseMode(c)
                         THEN ArraySplit(c.num_experts, c.tp_size, r)
                         ELSE NoList]

FwdInit ==
    /\ cfg \in FwdConfigs
    /\ ipc = [r \in Ranks(cfg) |-> "done"]
    /\ created = [r \in Ranks(cfg) |-> Constructed(cfg, r).created]
    /\ expert_indicies = [r \in Ranks(cfg) |-> Constructed(cfg, r).expert_indicies]
    /\ fpc = [r \in Ranks(cfg) |-> "idle"]
    /\ selected_experts \in [Tokens -> [Slots(cfg) -> Experts(cfg)]]
    /\ final_hidden_states = [r \in Ranks(cfg) |-> NoTensor]
    /\ ar_buf = [r \in Ranks(cfg) |-> NoTensor]
    /\ n_allreduce = [r \in Ranks(cfg) |-> 0]
    /\ IdleLoad /\ IdleQuip

FwdNext ==
    \/ \E r \in Ranks(cfg) : ForwardCall(r)
    \/ \E r \in Ranks(cfg) : ForwardReduce(r)
    \/ \E r \in Ranks(cfg) : AllReduceComplete(r)

SpecFwd == FwdInit /\ [][FwdNext]_vars

\* a rank that is inside forward keeps running; whether a rank calls forward
\* at all is up to the scheduler
RankRuns(r) ==
    r \in Ranks(cfg) /\ (ForwardReduce(r) \/ AllReduceComplete(r))

FairSpecFwd ==
    /\ SpecFwd
    /\ \A r \in 0 .. (MaxRanks - 1) : WF_vars(RankRuns(r))

\* ---------------------------------------------------------------- C3, C4
\* the sum, over the top-k slots of token t whose expert lives on rank r, of
\* routing weight times that expert's output
SlotSum(r, t) ==
    SumTo([k \in Slots(cfg) |->
             IF \E i \in 1 .. Len(expert_indicies[r]) :
                    expert_indicies[r][i] = selected_experts[t][k]
             THEN RoutingWeight(t, k) * ExpertLayer(selected_experts[t][k], t)
             ELSE 0], cfg.top_k)

\* C3: dense mode on a single rank: once forward has returned, every row of
\* the output is the slot-wise weighted sum of the selected experts' outputs
\* (a doubly selected expert counted with both slot weights) plus the gated
\* shared expert output when a shared expert is configured.
C3_DenseOutput ==
    \A r \in Ranks(cfg) :
        (cfg.tp_size = 1 /\ DenseMode(cfg) /\ fpc[r] = "done") =>
            \A t \in Tokens :
                final_hidden_states[r][t] =
                    SlotSum(r, t)
                    + (IF cfg.shared
                       THEN SharedGateSigmoid(t) * SharedExpert(t) ELSE 0)

C3_Witness ==
    /\ cfg.tp_size = 1 /\ DenseMode(cfg) /\ cfg.shared /\ cfg.top_k = 2
    /\ cfg.num_experts = 2
    /\ fpc[0] = "done"
    /\ \E t \in Tokens : selected_experts[t][1] = selected_experts[t][2]

AllCalled == \A r \in Ranks(cfg) : fpc[r] # "idle"
AllReturned == \A r \in Ranks(cfg) : fpc[r] = "done"

\* C4: a rank that has returned from forward has issued exactly one
\* all-reduce if tp_size > 1 and none if tp_size = 1, whatever the routing,
\* the branch and the shared expert; and once every rank has called forward,
\* every rank eventually returns.
C4_OneCollectivePerCall ==
    /\ [](\A r \in Ranks(cfg) :
             /\ n_allreduce[r] <= (IF cfg.tp_size > 1 THEN 1 ELSE 0)
             /\ fpc[r] \in {"blocked", "done"} =>
                    n_allreduce[r] = (IF cfg.tp_size > 1 THEN 1 ELSE 0))
    /\ (AllCalled ~> AllReturned)

C4_Witness ==
    /\ cfg.tp_size > 1 /\ DenseMode(cfg) /\ AllReturned
    /\ \A r \in Ranks(cfg) : n_allreduce[r] = 1
    /\ \E r \in Ranks(cfg) :
          \A t \in Tokens, k \in Slots(cfg), i \in 1 .. Len(expert_indicies[r]) :
              selected_experts[t][k] # expert_indicies[r][i]

\* ----------------------------------------- Qwen2MoeForCausalLM.load_weights
\* A parameter name is a sequence of tokens, cut so that every pattern the
\* loader searches for is a run of whole tokens: "qkv_proj" is q,k,v,_proj
\* (so that "v_proj" occurs in it and "k_proj" does not) and "gate_up_proj" is
\* gate,_,up,_proj (so that "up_proj" occurs in it and "gate_proj" does not).
\* The tensor kind "weight" stands for whatever tensors the linear method
\* stores (weight, qweight, Qidxs, ...).
RECURSIVE Join(_)
Join(parts) == IF Len(parts) = 1 THEN parts[1]
               ELSE parts[1] \o <<".">> \o Join(Tail(parts))

q_proj == <<"q", "_proj">>
k_proj == <<"k", "_proj">>
v_proj == <<"v", "_proj">>
o_proj == <<"o", "_proj">>
qkv_proj == <<"q", "k", "v", "_proj">>
gate_proj == <<"gate", "_proj">>
up_proj == <<"up", "_proj">>
down_proj == <<"down", "_proj">>
gate_up_proj == <<"gate", "_", "up", "_proj">>
Layer == <<"model", ".", "layers", ".", "0">>
Attn(proj, kind) == Join(<<Layer, <<"self_attn">>, proj, <<kind>>>>)
Mlp(proj, kind) == Join(<<Layer, <<"mlp">>, proj, <<kind>>>>)
SharedExpertName(proj, kind) ==
    Join(<<Layer, <<"mlp">>, <<"shared_expert">>, proj, <<kind>>>>)
ExpertName(e, proj, kind) ==
    Join(<<Layer, <<"mlp">>, <<"experts">>, <<ToString(e)>>, proj, <<kind>>>>)
InvFreqName == Join(<<Layer, <<"self_attn">>, <<"rotary_emb">>, <<"inv_freq">>>>)

\* weight_name in name
StartsAt(name, pat, i) ==
    /\ i + Len(pat) - 1 <= Len(name)
    /\ \A j \in 1 .. Len(pat) : name[i + j - 1] = pat[j]

Contains(name, pat) == \E i \in 1 .. Len(name) : StartsAt(name, pat, i)

\* name.replace(old, new): every occurrence, left to right, not overlapping
RECURSIVE ReplaceFrom(_, _, _, _)
ReplaceFrom(name, old, new, i) ==
    IF i > Len(name) THEN <<>>
    ELSE IF StartsAt(name, old, i)
         THEN new \o ReplaceFrom(name, old, new, i + Len(old))
         ELSE <<name[i]>> \o ReplaceFrom(name, old, new, i + 1)

Replace(name, old, new) == ReplaceFrom(name, old, new, 1)

\* name.endswith(".bias")
EndsWithBias(name) ==
    /\ Len(name) >= 2
    /\ name[Len(name) - 1] = "."
    /\ name[Len(name)] = "bias"

\* "mlp.experts." in name or "mlp.shared_expert." in name
IsExpertParam(name) ==
    \/ Contains(name, <<"mlp", ".", "experts", ".">>)
    \/ Contains(name, <<"mlp", ".", "shared_expert", ".">>)

\* "rotary_emb.inv_freq" in name
IsInvFreq(name) == Contains(name, <<"rotary_emb", ".", "inv_freq">>)

\* a plausible slip: the shard tags of k_proj and v_proj are exchanged
Mut_stacked_params_mapping ==
    << [param_name |-> qkv_proj, weight_name |-> q_proj, shard_id |-> "q"],
       [param_name |-> qkv_proj, weight_name |-> k_proj, shard_id |-> "v"],
       [param_name |-> qkv_proj, weight_name |-> v_proj, shard_id |-> "k"],
       [param_name |-> Join(<<<<"mlp">>, gate_up_proj>>),
        weight_name |-> Join(<<<<"mlp">>, gate_proj>>), shard_id |-> "0"],
       [param_name |-> Join(<<<<"mlp">>, gate_up_proj>>),
        weight_name |-> Join(<<<<"mlp">>, up_proj>>), shard_id |-> "1"],
       [param_name |-> Join(<<<<"shared_expert">>, gate_up_proj>>),
        weight_name |-> Join(<<<<"shared_expert">>, gate_proj>>), shard_id |-> "0"],
       [param_name |-> Join(<<<<"shared_expert">>, gate_up_proj>>),
        weight_name |-> Join(<<<<"shared_expert">>, up_proj>>), shard_id |-> "1"] >>

\* lines 485-494 (the integer shard ids 0 and 1 are written "0" and "1")
stacked_params_mapping ==
    << [param_name |-> qkv_proj, weight_name |-> q_proj, shard_id |-> "q"],
       [param_name |-> qkv_proj, weight_name |-> k_proj, shard_id |-> "k"],
       [param_name |-> qkv_proj, weight_name |-> v_proj, shard_id |-> "v"],
       [param_name |-> Join(<<<<"mlp">>, gate_up_proj>>),
        weight_name |-> Join(<<<<"mlp">>, gate_proj>>), shard_id |-> "0"],
       [param_name |-> Join(<<<<"mlp">>, gate_up_proj>>),
        weight_name |-> Join(<<<<"mlp">>, up_proj>>), shard_id |-> "1"],
       [param_name |-> Join(<<<<"shared_expert">>, gate_up_proj>>),
        weight_name |-> Join(<<<<"shared_expert">>, gate_proj>>), shard_id |-> "0"],
       [param_name |-> Join(<<<<"shared_expert">>, gate_up_proj>>),
        weight_name |-> Join(<<<<"shared_expert">>, up_proj>>), shard_id |-> "1"] >>

\* a plausible slip: the condition of lines 504-505 is inverted
MutExpertTableActive(c) == c.linear_method = "nonfused"

\* lines 504-505: self.linear_method is None or
\* self.linear_method.quant_config.support_fused_moe()
ExpertTableActive(c) == c.linear_method = None \/ c.linear_method = "fused"

ExpertKinds ==
    << [weight_name |-> gate_proj, shard_id |-> "0"],
       [weight_name |-> up_proj, shard_id |-> "1"],
       [weight_name |-> down_proj, shard_id |-> None] >>

\* lines 496-505: one row per expert id and per projection, expert id major
ExpertParamsMapping(c) ==
    IF ExpertTableActive(c)
    THEN [i \in 1 .. (Len(ExpertKinds) * c.num_experts) |->
            LET expert_id == (i - 1) \div Len(ExpertKinds)
                kind == ExpertKinds[((i - 1) % Len(ExpertKinds)) + 1]
            IN  [param_name |-> IF kind.weight_name \in {gate_proj, up_proj}
                                THEN <<"w1">> ELSE <<"w2">>,
                 weight_name |-> Join(<<<<"experts">>, <<ToString(expert_id)>>,
                                        kind.weight_name>>),
                 shard_id |-> kind.shard_id,
                 expert_id |-> ToString(expert_id)]]
    ELSE <<>>

\* line 507: dict(self.named_parameters()) of a model with one decoder layer,
\* on rank c.rank
NamedParameters(c) ==
    {Attn(qkv_proj, "weight"), Attn(qkv_proj, "bias"), Attn(o_proj, "weight")}
    \cup
    (IF c.moe_layer
     THEN {Mlp(<<"gate">>, "weight"), Mlp(<<"shared_expert", "_gate">>, "weight")}
          \cup (IF c.shared
                THEN {SharedExpertName(gate_up_proj, "weight"),
                      SharedExpertName(down_proj, "weight")}
                ELSE {})
          \cup (IF DenseMode(c)
                THEN LET idx == ArraySplit(c.num_experts, c.tp_size, c.rank) IN
                     {ExpertName(idx[i], proj, "weight") :
                         i \in 1 .. Len(idx), proj \in {gate_proj, up_proj, down_proj}}
                ELSE {Mlp(<<"w1">>, "weight"), Mlp(<<"w2">>, "weight")})
     ELSE {Mlp(gate_up_proj, "weight"), Mlp(down_proj, "weight")})

Call(table, dest, tensor, shard_id, expert_id) ==
    [table |-> table, dest |-> dest, tensor |-> tensor,
     shard_id |-> shard_id, expert_id |-> expert_id]

Outcome(name, calls, err, brk) ==
    [final |-> name, calls |-> calls, err |-> err, brk |-> brk]

\* a plausible slip: the break of line 531 is missing
RECURSIVE MutStackedWalk(_, _, _)
MutStackedWalk(name, tensor, i) ==
    IF i > Len(stacked_params_mapping) THEN Outcome(name, <<>>, FALSE, FALSE)
    ELSE LET rule == stacked_params_mapping[i]
             nm == Replace(name, rule.weight_name, rule.param_name)
         IN  IF ~Contains(name, rule.weight_name)
             THEN MutStackedWalk(name, tensor, i + 1)
             ELSE IF EndsWithBias(nm) /\ nm \notin params_dict
             THEN MutStackedWalk(nm, tensor, i + 1)
             ELSE IF IsExpertParam(nm) /\ nm \notin params_dict
             THEN MutStackedWalk(nm, tensor, i + 1)
             ELSE IF nm \notin params_dict
             THEN Outcome(nm, <<>>, TRUE, FALSE)
             ELSE LET rest == MutStackedWalk(nm, tensor, i + 1) IN
                  Outcome(rest.final,
                          <<Call("stacked", nm, tensor, rule.shard_id, None)>>
                             \o rest.calls,
                          rest.err, rest.brk)

\* lines 517-531: the loop over stacked_params_mapping from row i on; brk says
\* that the loop was left by break (so that its else branch does not run)
RECURSIVE StackedWalk(_, _, _)
StackedWalk(name, tensor, i) ==
    IF i > Len(stacked_params_mapping) THEN Outcome(name, <<>>, FALSE, FALSE)
    ELSE LET rule == stacked_params_mapping[i]
             nm == Replace(name, rule.weight_name, rule.param_name)
         IN  IF ~Contains(name, rule.weight_name)
             THEN StackedWalk(name, tensor, i + 1)
             ELSE IF EndsWithBias(nm) /\ nm \notin params_dict
             THEN StackedWalk(nm, tensor, i + 1)
             ELSE IF IsExpertParam(nm) /\ nm \notin params_dict
             THEN StackedWalk(nm, tensor, i + 1)
             ELSE IF nm \notin params_dict
             THEN \* params_dict[name] raises KeyError
                  Outcome(nm, <<>>, TRUE, FALSE)
             ELSE Outcome(nm, <<Call("stacked", nm, tensor, rule.shard_id, None)>>,
                          FALSE, TRUE)

\* lines 533-551: the loop over expert_params_mapping from row i on
RECURSIVE ExpertWalk(_, _, _)
ExpertWalk(name, tensor, i) ==
    IF i > Len(expert_params_mapping) THEN Outcome(name, <<>>, FALSE, FALSE)
    ELSE LET rule == expert_params_mapping[i]
             nm == Replace(name, rule.weight_name, rule.param_name)
         IN  IF ~Contains(name, rule.weight_name)
             THEN ExpertWalk(name, tensor, i + 1)
             ELSE IF EndsWithBias(nm) /\ nm \notin params_dict
             THEN ExpertWalk(nm, tensor, i + 1)
             ELSE IF nm \notin params_dict
             THEN Outcome(nm, <<>>, TRUE, FALSE)
             ELSE Outcome(nm, <<Call("expert", nm, tensor, rule.shard_id,
                                     rule.expert_id)>>, FALSE, TRUE)

\* a plausible slip: the default rule lacks the bias skip of lines 554-555
MutDefaultRule(name, tensor) ==
    IF IsExpertParam(name) /\ name \notin params_dict
    THEN Outcome(name, <<>>, FALSE, FALSE)
    ELSE IF name \notin params_dict
    THEN Outcome(name, <<>>, TRUE, FALSE)
    ELSE Outcome(name, <<Call("default", name, tensor, None, None)>>, FALSE, FALSE)

\* a plausible slip: the default rule looks the name up with dict.get and
\* skips whatever is missing
MutDefaultRuleGet(name, tensor) ==
    IF name \notin params_dict
    THEN Outcome(name, <<>>, FALSE, FALSE)
    ELSE Outcome(name, <<Call("default", name, tensor, None, None)>>, FALSE, FALSE)

\* lines 552-564
DefaultRule(name, tensor) ==
    IF EndsWithBias(name) /\ name \notin params_dict
    THEN Outcome(name, <<>>, FALSE, FALSE)
    ELSE IF IsExpertParam(name) /\ name \notin params_dict
    THEN Outcome(name, <<>>, FALSE, FALSE)
    ELSE IF name \notin params_dict
    THEN Outcome(name, <<>>, TRUE, FALSE)
    ELSE Outcome(name, <<Call("default", name, tensor, None, None)>>, FALSE, FALSE)

\* lines 515-564: one iteration of the loop over the checkpoint stream
ProcessEntry(name, tensor) ==
    IF IsInvFreq(name) THEN Outcome(name, <<>>, FALSE, FALSE)
    ELSE LET s == StackedWalk(name, tensor, 1) IN
         IF s.err \/ s.brk THEN s
         ELSE LET e == ExpertWalk(s.final, tensor, 1) IN
              IF e.err THEN Outcome(e.final, s.calls \o e.calls, TRUE, FALSE)
              ELSE IF e.brk THEN Outcome(e.final, s.calls \o e.calls, FALSE, TRUE)
              ELSE LET d == DefaultRule(e.final, tensor) IN
                   Outcome(d.final, s.calls \o e.calls \o d.calls, d.err, FALSE)

\* the names a checkpoint stream is drawn from; the tensor stored under a
\* name is identified with that name
CheckpointNames ==
    {Attn(q_proj, "weight"), Attn(k_proj, "weight"), Attn(v_proj, "weight"),
     Attn(o_proj, "weight"), Attn(o_proj, "bias"), Attn(o_proj, "qzeros"),
     InvFreqName,
     ExpertName(0, gate_proj, "weight"), ExpertName(1, down_proj, "weight"),
     ExpertName(0, up_proj, "bias"),
     SharedExpertName(up_proj, "weight"),
     Mlp(gate_proj, "weight"), Mlp(gate_proj, "bias")}

QkvNames == {Attn(q_proj, "weight"), Attn(k_proj, "weight"), Attn(v_proj, "weight")}

QkvOrders ==
    {st \in [1 .. 3 -> QkvNames] : \A i, j \in 1 .. 3 : i # j => st[i] # st[j]}

\* the names of a checkpoint are distinct
Streams ==
    QkvOrders \cup
    UNION {{st \in [1 .. n -> CheckpointNames] :
               \A i, j \in 1 .. n : i # j => st[i] # st[j]} : n \in 0 .. MaxStream}

\* the model configurations and ranks load_weights runs under; the tensor
\* parallel layout is varied where the parameter dict depends on it (a
\* sparse layer with per-expert modules)
LoadConfigs ==
    {c \in [num_experts : {MaxFwdExperts}, tp_size : 1 .. MaxRanks,
            linear_method : LinearMethods, shared : BOOLEAN,
            top_k : {1}, moe_layer : BOOLEAN, rank : 0 .. (MaxRanks - 1)] :
        /\ ~TooManyRanks(c)
        /\ c.rank \in Ranks(c)
        /\ (c.moe_layer /\ DenseMode(c)) \/ c.tp_size = 1
        /\ c.moe_layer \/ ~c.shared}

\* the iterator has a next entry and no exception has left the loop
HasNext == pos < Len(stream) /\ ~load_failed

\* lines 508-564: the next (name, loaded_weight) of the stream
LoadEntry ==
    /\ HasNext
    /\ \E r \in {ProcessEntry(stream[pos + 1], stream[pos + 1])} :
          /\ trace' = Append(trace, [name |-> stream[pos + 1], final |-> r.final,
                                     calls |-> r.calls, err |-> r.err])
          /\ load_failed' = r.err
    /\ pos' = pos + 1
    /\ UNCHANGED <<cfg, stream, params_dict, expert_params_mapping>>
    /\ UNCHANGED <<ctorVars, fwdVars, quipVars>>

LoadInit ==
    /\ cfg \in LoadConfigs
    /\ ipc = [r \in Ranks(cfg) |-> "done"]
    /\ created = [r \in Ranks(cfg) |->
                    IF cfg.moe_layer THEN Constructed(cfg, r).created ELSE {}]
    /\ expert_indicies = [r \in Ranks(cfg) |->
                    IF cfg.moe_layer THEN Constructed(cfg, r).expert_indicies
                    ELSE NoList]
    /\ stream \in Streams
    /\ params_dict = NamedParameters(cfg)
    /\ expert_params_mapping = ExpertParamsMapping(cfg)
    /\ pos = 0
    /\ trace = <<>>
    /\ load_failed = FALSE
    /\ IdleFwd /\ IdleQuip

LoadNext == LoadEntry

SpecLoad == LoadInit /\ [][LoadNext]_vars

\* ------------------------------------------------------------ C5 .. C9
Processed == 1 .. Len(trace)
LoadDone == pos = Len(stream) /\ ~load_failed

QkvCall(source, tag) ==
    Call("stacked", Attn(qkv_proj, "weight"), Attn(source, "weight"), tag, None)

\* C5: when a stream that holds the q_proj, k_proj and v_proj weights of the
\* layer, in any order, has been loaded, each of the three was handed to the
\* loader of the one destination qkv_proj.weight exactly once, q_proj's tensor
\* with shard tag q, k_proj's with k and v_proj's with v, and that
\* destination's loader was invoked exactly three times.
C5_QkvAnyOrder ==
    (LoadDone /\ stream \in QkvOrders) =>
        /\ \A i \in Processed :
              /\ trace[i].name = Attn(q_proj, "weight") =>
                     trace[i].calls = <<QkvCall(q_proj, "q")>>
              /\ trace[i].name = Attn(k_proj, "weight") =>
                     trace[i].calls = <<QkvCall(k_proj, "k")>>
              /\ trace[i].name = Attn(v_proj, "weight") =>
                     trace[i].calls = <<QkvCall(v_proj, "v")>>
        /\ Cardinality({<<i, j>> \in Processed \X (1 .. 2) :
                           /\ j <= Len(trace[i].calls)
                           /\ trace[i].calls[j].dest = Attn(qkv_proj, "weight")}) = 3

C5_Witness ==
    /\ LoadDone
    /\ stream = <<Attn(v_proj, "weight"), Attn(k_proj, "weight"),
                  Attn(q_proj, "weight")>>
    /\ Len(trace) = 3

MatchesStacked(name) ==
    \E i \in 1 .. Len(stacked_params_mapping) :
        Contains(name, stacked_params_mapping[i].weight_name)

MatchesExpert(name) ==
    \E i \in 1 .. Len(expert_params_mapping) :
        Contains(name, expert_params_mapping[i].weight_name)

\* C6: for every entry a loader is invoked at most once; an entry whose name
\* matches a row of the stacked table is loaded through no other table, and
\* an entry whose name matches a row of the expert table is not loaded
\* through the default rule.
C6_FirstMatchWins ==
    \A i \in Processed :
        /\ Len(trace[i].calls) <= 1
        /\ \A j \in 1 .. Len(trace[i].calls) :
              /\ MatchesStacked(trace[i].name) =>
                     trace[i].calls[j].table = "stacked"
              /\ MatchesExpert(trace[i].name) =>
                     trace[i].calls[j].table # "default"

C6_Witness ==
    /\ LoadDone /\ Len(trace) = 2
    /\ MatchesStacked(trace[1].name) /\ Len(trace[1].calls) = 1
    /\ MatchesExpert(trace[2].name) /\ ~MatchesStacked(trace[2].name)
    /\ Len(trace[2].calls) = 1

NoDestination(rec) == rec.final \notin params_dict
Skipped(rec) == rec.calls = <<>> /\ ~rec.err

\* the stream is consumed up to the failing entry, and a further entry is
\* processed whenever the last one did not fail
Continues ==
    /\ Len(trace) = pos
    /\ \A i \in Processed : trace[i].err => (i = pos /\ load_failed)
    /\ (pos < Len(stream) /\ (pos = 0 \/ ~trace[pos].err)) => HasNext

\* C7 as claimed: an entry whose name ends in .bias, or whose name carries
\* mlp.experts. or mlp.shared_expert., and whose destination is missing, is
\* skipped without failure in whichever table it is matched.
C7_SkipInEveryTable ==
    \A i \in Processed :
        (NoDestination(trace[i]) /\ ~IsInvFreq(trace[i].name)
         /\ (EndsWithBias(trace[i].name) \/ IsExpertParam(trace[i].name)))
            => Skipped(trace[i])

\* C7, amended: an entry whose rewritten name ends in .bias and has no
\* destination is skipped without failure in all three tables; an entry whose
\* rewritten name carries mlp.experts. or mlp.shared_expert. and has no
\* destination is skipped without failure (the stacked table and the default
\* rule test this; the expert table rewrites the name to w1/w2 and tests the
\* bias suffix only); after a skip the loader goes on with the next entry.
C7_SkipRules ==
    /\ \A i \in Processed :
          (NoDestination(trace[i]) /\ ~IsInvFreq(trace[i].name)
           /\ (EndsWithBias(trace[i].final) \/ IsExpertParam(trace[i].final)))
              => Skipped(trace[i])
    /\ Continues

C7_Witness ==
    /\ LoadDone /\ Len(trace) = 2
    /\ trace[1].name = Mlp(gate_proj, "bias") /\ Skipped(trace[1])
    /\ trace[1].final # trace[1].name
    /\ trace[2].name = ExpertName(1, down_proj, "weight") /\ Skipped(trace[2])

\* C8 as claimed: every entry whose resolved destination is missing and whose
\* name neither ends in .bias nor names an expert or shared expert parameter
\* makes load_weights fail.
C8_EveryOtherMissingFails ==
    \A i \in Processed :
        (NoDestination(trace[i]) /\ ~EndsWithBias(trace[i].final)
         /\ ~IsExpertParam(trace[i].final))
            => (trace[i].err /\ load_failed)

\* C8, amended: every entry whose resolved destination is missing, whose
\* name neither ends in .bias nor names an expert or shared expert parameter,
\* and whose name does not contain rotary_emb.inv_freq, makes load_weights
\* fail: it is the last entry consumed and nothing was loaded from it.
C8_MissingIsFatal ==
    \A i \in Processed :
        (NoDestination(trace[i]) /\ ~EndsWithBias(trace[i].final)
         /\ ~IsExpertParam(trace[i].final) /\ ~IsInvFreq(trace[i].name))
            => (trace[i].err /\ load_failed /\ i = pos /\ trace[i].calls = <<>>)

C8_Witness ==
    /\ Len(trace) = 2 /\ load_failed
    /\ Skipped(trace[1])
    /\ trace[2].name = Attn(o_proj, "qzeros") /\ trace[2].err

IsExpertEntry(name, e, k) == name = ExpertName(e, ExpertKinds[k].weight_name, "weight")

\* C9 as claimed: when the backend does not support fused MoE, a per-expert
\* name that is loaded is loaded through the expert table, with its expert id
\* and, for gate/up projections, its shard tag.
C9_ExpertTableWhenNotFused ==
    \A i \in Processed : \A e \in Experts(cfg), k \in 1 .. Len(ExpertKinds) :
        (DenseMode(cfg) /\ IsExpertEntry(trace[i].name, e, k)
         /\ trace[i].calls # <<>>)
            => /\ trace[i].calls[1].table = "expert"
               /\ trace[i].calls[1].expert_id = ToString(e)
               /\ trace[i].calls[1].shard_id = ExpertKinds[k].shard_id

\* C9, amended: the expert table is active when no linear method is given or
\* the backend supports fused MoE: then a per-expert name that is loaded goes
\* through that table into w1 (gate/up) or w2 (down) with its expert id and,
\* for gate/up, its shard tag.  When the backend does not support fused MoE
\* the table is empty: a per-expert name is loaded by the default rule into
\* the parameter of the same name, without expert id or shard tag, or skipped.
C9_ExpertTableWhenFused ==
    \A i \in Processed : \A e \in Experts(cfg), k \in 1 .. Len(ExpertKinds) :
        (IsExpertEntry(trace[i].name, e, k)
         /\ (cfg.moe_layer \/ trace[i].calls # <<>>)) =>
            IF DenseMode(cfg)
            THEN IF \E j \in 1 .. Len(expert_indicies[cfg.rank]) :
                        expert_indicies[cfg.rank][j] = e
                 THEN trace[i].calls =
                        <<Call("default", trace[i].name, trace[i].name, None, None)>>
                 ELSE Skipped(trace[i])
            ELSE trace[i].calls =
                    <<Call("expert",
                           Mlp(IF k = 3 THEN <<"w2">> ELSE <<"w1">>, "weight"),
                           trace[i].name, ExpertKinds[k].shard_id, ToString(e))>>

C9_Witness ==
    /\ LoadDone /\ Len(trace) = 2 /\ ~DenseMode(cfg)
    /\ trace[1].name = ExpertName(0, gate_proj, "weight")
    /\ trace[1].calls # <<>> /\ trace[1].calls[1].shard_id = "0"
    /\ trace[2].name = ExpertName(1, down_proj, "weight")
    /\ trace[2].calls # <<>> /\ trace[2].calls[1].shard_id = None

\* ------------------------------------------------------- QuipLinearMethod
pack == 8
DecompressWidth == 8
LatencyRows == 32

RECURSIVE NextPow2(_, _)
NextPow2(n, p) == IF p >= n THEN p ELSE NextPow2(n, 2 * p)

\* get_hadK(n): the rotation of a size that is a power of two needs no
\* matrix and no padding; any other size is padded to the next power of two
GetHadK(n) == [had |-> NextPow2(n, 1) # n, q |-> NextPow2(n, 1)]

RECURSIVE Product(_)
Product(dims) == IF dims = <<>> THEN 1 ELSE Head(dims) * Product(Tail(dims))

\* a plausible slip: only a store sharded in both dimensions is refused
MutCreateWeightsResult(a) ==
    IF a.input_size # a.input_size_per_partition
       /\ a.output_size # a.output_size_per_partition
    THEN [made |-> FALSE, error |-> TRUE]
    ELSE [made |-> TRUE, error |-> FALSE,
          had_left |-> GetHadK(a.input_size).had,
          had_right |-> GetHadK(a.output_size).had,
          q_in_features |-> GetHadK(a.input_size).q,
          q_out_features |-> GetHadK(a.output_size).q,
          Qidxs |-> <<GetHadK(a.output_size).q, GetHadK(a.input_size).q \div pack>>,
          SU |-> a.input_size,
          SV |-> a.output_size]

\* lines 84-139
CreateWeightsResult(a) ==
    IF a.input_size # a.input_size_per_partition
       \/ a.output_size # a.output_size_per_partition
    THEN [made |-> FALSE, error |-> TRUE]
    ELSE [made |-> TRUE, error |-> FALSE,
          had_left |-> GetHadK(a.input_size).had,
          had_right |-> GetHadK(a.output_size).had,
          q_in_features |-> GetHadK(a.input_size).q,
          q_out_features |-> GetHadK(a.output_size).q,
          Qidxs |-> <<GetHadK(a.output_size).q, GetHadK(a.input_size).q \div pack>>,
          SU |-> a.input_size,
          SV |-> a.output_size]

\* line 145: x.reshape(-1, x.shape[-1]).size(0)
FlatRows(lead) == Product(lead)

\* a plausible slip: the size of the first dimension of x is compared
MutUseGemv(lead) == (IF lead = <<>> THEN 1 ELSE Head(lead)) < LatencyRows

\* line 154: if reshaped_x.size(0) < 32
UseGemv(lead) == FlatRows(lead) < LatencyRows

\* lines 141-172; tensors are given by their shapes
ApplyWeightsResult(w, a) ==
    LET rows == FlatRows(a.lead)
        m == w.Qidxs[1]
        n == w.Qidxs[2]
        out_dim == w.SV
    IN  IF UseGemv(a.lead)
        THEN [done |-> TRUE, strategy |-> "gemv", rows |-> rows,
              dense |-> <<>>, error |-> FALSE,
              out |-> a.lead \o <<out_dim>>]
        ELSE IF w.q_in_features # n * DecompressWidth
        THEN \* reshaped_x @ W_decompressed.T: the inner sizes differ
             [done |-> TRUE, strategy |-> "dense", rows |-> rows,
              dense |-> <<m, n * DecompressWidth>>, error |-> TRUE,
              out |-> <<>>]
        ELSE [done |-> TRUE, strategy |-> "dense", rows |-> rows,
              dense |-> <<m, n * DecompressWidth>>, error |-> FALSE,
              out |-> a.lead \o <<out_dim>>]

PartitionSizes(n) == {n, (n + 1) \div 2}

Leads ==
    {<<>>} \cup {<<r>> : r \in 0 .. MaxRows}
           \cup {<<b, l>> : b \in 1 .. MaxBatch, l \in 1 .. MaxSeq}

QuipArgs ==
    {a \in [made : {TRUE}, input_size : 1 .. MaxIn, output_size : 1 .. MaxOut,
            input_size_per_partition : 1 .. MaxIn,
            output_size_per_partition : 1 .. MaxOut,
            lead : Leads, bias : BOOLEAN] :
        /\ a.input_size_per_partition \in PartitionSizes(a.input_size)
        /\ a.output_size_per_partition \in PartitionSizes(a.output_size)}

CreateWeights ==
    /\ ~weights.made /\ ~weights.error
    /\ weights' = CreateWeightsResult(qarg)
    /\ UNCHANGED <<cfg, qarg, qout, qvals, qlog, ctorVars, fwdVars, loadVars>>

ApplyWeights ==
    /\ weights.made /\ ~qout.done
    /\ qout' = ApplyWeightsResult(weights, qarg)
    /\ UNCHANGED <<cfg, qarg, weights, qvals, qlog, ctorVars, fwdVars, loadVars>>

QuipInit ==
    /\ cfg = [num_experts |-> 1, tp_size |-> 1, linear_method |-> "nonfused",
              shared |-> FALSE, top_k |-> 1, moe_layer |-> FALSE, rank |-> 0]
    /\ ipc = <<>> /\ created = <<>> /\ expert_indicies = <<>>
    /\ IdleFwd /\ IdleLoad
    /\ qarg \in QuipArgs
    /\ weights = NoWeights
    /\ qout = NoOutput
    /\ qvals = NoValues
    /\ qlog = <<>>

QuipNext == CreateWeights \/ ApplyWeights

SpecQuip == QuipInit /\ [][QuipNext]_vars

\* ------------------------------------------------------------------ C10
\* C10: the strategy depends on the flattened row count N (the product of
\* all leading dimensions of x) alone: for N < 32 the gather-and-accumulate
\* kernel is used and no dense matrix is materialized; for N >= 32 a dense
\* matrix of shape (paddedOutputFeatures, paddedInputFeatures) is
\* materialized and multiplied.
C10_StrategyByRows ==
    qout.done =>
        IF Product(qarg.lead) < LatencyRows
        THEN qout.strategy = "gemv" /\ qout.dense = <<>>
        ELSE /\ qout.strategy = "dense"
             /\ qout.dense = <<weights.q_out_features, weights.q_in_features>>
             /\ ~qout.error

\* the part of C10 that holds: the strategy is chosen by the product of the
\* leading dimensions, and a dense matrix exists exactly when N >= 32
C10_ChoiceByRows ==
    qout.done =>
        /\ qout.rows = Product(qarg.lead)
        /\ (qout.rows < LatencyRows) <=> (qout.strategy = "gemv")
        /\ (qout.rows >= LatencyRows) <=> (qout.strategy = "dense")
        /\ (qout.dense = <<>>) <=> (qout.rows < LatencyRows)

C10_Witness ==
    /\ qout.done /\ qout.strategy = "dense" /\ qout.error
    /\ qarg.lead = <<4, 8>>
    /\ weights.q_in_features = 4 /\ weights.Qidxs = <<1, 0>>

\* ------------------------------------------- apply_weights, row contents
\* the codebook (get_packed_abs_grid): vectors of DecompressWidth entries
CodeIds == 1 .. 2
Codebook ==
    <<[k \in 1 .. DecompressWidth |-> k],
      [k \in 1 .. DecompressWidth |-> IF k % 2 = 1 THEN 1 ELSE -1]>>

\* line 148 / 169: elementwise product with a scale vector
Scale(x, s) == [i \in 1 .. Len(x) |-> x[i] * s[i]]

\* matmul_hadUt_cuda(x, had, K, q): x zero-padded to q entries and rotated
\* by a fixed orthogonal transform (here: the reversal), identity without had
RotateT(x, had, q) ==
    LET padded == [i \in 1 .. q |-> IF i <= Len(x) THEN x[i] ELSE 0]
    IN  IF had THEN [i \in 1 .. q |-> padded[q + 1 - i]] ELSE padded

\* matmul_hadU_cuda(x, had, K, q): the inverse rotation
Rotate(x, had, q) ==
    LET padded == [i \in 1 .. q |-> IF i <= Len(x) THEN x[i] ELSE 0]
    IN  IF had THEN [i \in 1 .. q |-> padded[q + 1 - i]] ELSE padded

\* ops.quip_gemv: for each output row the codebook vectors its indices name
\* are gathered and accumulated against the matching entries of x
QuipGemv(x, Q) ==
    [i \in 1 .. Len(Q) |->
        SumTo([j \in 1 .. Len(Q[i]) |->
                 SumTo([k \in 1 .. DecompressWidth |->
                          x[DecompressWidth * (j - 1) + k] * Codebook[Q[i][j]][k]],
                       DecompressWidth)],
              Len(Q[i]))]

\* ops.quip_decompress into W_decompressed of shape (m, n * 8)
QuipDecompress(Q, m, n) ==
    [i \in 1 .. m |->
        [c \in 1 .. n * DecompressWidth |->
            Codebook[Q[i][((c - 1) \div DecompressWidth) + 1]]
                    [((c - 1) % DecompressWidth) + 1]]]

\* line 165: x @ W.T for one row x
MatMulT(x, W) ==
    [i \in 1 .. Len(W) |-> SumTo([c \in 1 .. Len(x) |-> x[c] * W[i][c]], Len(x))]

\* lines 167-171, common to both strategies
Finish(w, v, out) ==
    LET rotated == Rotate(out, w.had_right, w.q_out_features)
        cut == [i \in 1 .. w.SV |-> rotated[i]]
        scaled == Scale(cut, v.SV)
    IN  IF v.bias = NoTensor THEN scaled
        ELSE [i \in 1 .. Len(scaled) |-> scaled[i] + v.bias[i]]

\* lines 141-172 for one row of an x of `rows` rows
ApplyRow(w, v, rows) ==
    LET reshaped_x == RotateT(Scale(v.row, v.SU), w.had_left, w.q_in_features)
        m == w.Qidxs[1]
        n == w.Qidxs[2]
    IN  IF UseGemv(<<rows>>)
        THEN [rows |-> rows, strategy |-> "gemv", error |-> FALSE,
              y |-> Finish(w, v, QuipGemv(reshaped_x, v.Qidxs))]
        ELSE IF Len(reshaped_x) # n * DecompressWidth
        THEN [rows |-> rows, strategy |-> "dense", error |-> TRUE, y |-> <<>>]
        ELSE [rows |-> rows, strategy |-> "dense", error |-> FALSE,
              y |-> Finish(w, v, MatMulT(reshaped_x, QuipDecompress(v.Qidxs, m, n)))]

\* the contents a checkpoint can put into the tensors of a store
Signs(n) == {[i \in 1 .. n |-> 1], [i \in 1 .. n |-> IF i % 2 = 1 THEN 1 ELSE -1]}

\* rows of x: the unit vectors and the all-ones vector
RowsOf(n) ==
    {[i \in 1 .. n |-> IF i = k THEN 1 ELSE 0] : k \in 1 .. n}
        \cup {[i \in 1 .. n |-> 1]}

StoreValues(a) ==
    [filled : {TRUE},
     Qidxs : [1 .. CreateWeightsResult(a).Qidxs[1] ->
                 [1 .. CreateWeightsResult(a).Qidxs[2] -> CodeIds]],
     SU : Signs(a.input_size),
     SV : {[i \in 1 .. a.output_size |-> IF i % 2 = 1 THEN 1 ELSE -1]},
     row : RowsOf(a.input_size),
     bias : IF a.bias THEN {[i \in 1 .. a.output_size |-> i]} ELSE {NoTensor}]

QuipValArgs ==
    {a \in QuipArgs :
        /\ a.input_size <= MaxValIn /\ a.output_size <= MaxValOut
        /\ a.input_size_per_partition = a.input_size
        /\ a.output_size_per_partition = a.output_size
        /\ a.lead = <<SmallBatch>>}

\* lines 141-172: apply_weights on an x of n rows
ApplyBatch(n) ==
    /\ weights.made /\ Len(qlog) < MaxCalls
    /\ qout' = ApplyWeightsResult(weights, [qarg EXCEPT !.lead = <<n>>])
    /\ qlog' = Append(qlog, ApplyRow(weights, qvals, n))
    /\ UNCHANGED <<cfg, qarg, weights, qvals, ctorVars, fwdVars, loadVars>>

QuipValInit ==
    /\ cfg = [num_experts |-> 1, tp_size |-> 1, linear_method |-> "nonfused",
              shared |-> FALSE, top_k |-> 1, moe_layer |-> FALSE, rank |-> 0]
    /\ ipc = <<>> /\ created = <<>> /\ expert_indicies = <<>>
    /\ IdleFwd /\ IdleLoad
    /\ qarg \in QuipValArgs
    /\ weights = NoWeights
    /\ qout = NoOutput
    /\ qvals \in StoreValues(qarg)
    /\ qlog = <<>>

QuipValNext == CreateWeights \/ \E n \in {SmallBatch, LargeBatch} : ApplyBatch(n)

SpecQuipVal == QuipValInit /\ [][QuipValNext]_vars

\* ------------------------------------------------------------------ C11
\* C11: for a fixed weight store and a fixed row, the output row of the
\* N < 32 strategy (batch of 1) and of the N >= 32 strategy (batch of 64)
\* are the same: both calls return, and return equal rows.
C11_StrategiesAgree ==
    \A i, j \in 1 .. Len(qlog) :
        (qlog[i].rows = SmallBatch /\ qlog[j].rows = LargeBatch) =>
            /\ ~qlog[i].error /\ ~qlog[j].error
            /\ qlog[i].y = qlog[j].y

\* the part of C11 that holds: on a store whose index geometry matches its
\* padded input size the two strategies return equal rows
C11_AgreeOnConsistentStore ==
    \A i, j \in 1 .. Len(qlog) :
        (/\ qlog[i].rows = SmallBatch /\ qlog[j].rows = LargeBatch
         /\ weights.Qidxs[2] * pack = weights.q_in_features) =>
            /\ ~qlog[i].error /\ ~qlog[j].error
            /\ qlog[i].y = qlog[j].y

C11_Witness ==
    /\ Len(qlog) = 2
    /\ qlog[1].rows = SmallBatch /\ qlog[1].strategy = "gemv" /\ ~qlog[1].error
    /\ qlog[2].rows = LargeBatch /\ qlog[2].strategy = "dense" /\ qlog[2].error
    /\ weights.q_in_features = 4

\* ------------------------------------------------------------------ C12
\* C12: create_weights with a per-partition input size different from the
\* full input size, or a per-partition output size different from the full
\* output size, raises and returns no weight store (so nothing can be
\* applied); with both per-partition sizes equal to the full sizes it
\* returns a store.
C12_ShardedCreateFails ==
    /\ (weights.made \/ weights.error) =>
          IF qarg.input_size # qarg.input_size_per_partition
             \/ qarg.output_size # qarg.output_size_per_partition
          THEN weights = [made |-> FALSE, error |-> TRUE]
          ELSE /\ weights.made /\ ~weights.error
               /\ {"Qidxs", "SU", "SV"} \subseteq DOMAIN weights
    /\ qout.done => weights.made

C12_Witness ==
    /\ weights.error /\ ~weights.made
    /\ qarg.input_size_per_partition # qarg.input_size
    /\ qarg.output_size_per_partition = qarg.output_size

\* ------------------------------------------------------------------ C13
\* the geometry of packedIndices disagrees with the declared feature counts
InconsistentStore(w) ==
    w.Qidxs[1] # w.q_out_features \/ w.Qidxs[2] * pack # w.q_in_features

\* C13: apply_weights fails whenever the geometry of Qidxs is inconsistent
\* with the declared feature counts of the store (rows # q_out_features or
\* cols * pack # q_in_features); it never returns an output computed from
\* such a store.
C13_InconsistentStoreRejected ==
    (qout.done /\ InconsistentStore(weights)) => (qout.error /\ qout.out = <<>>)

\* what the code does with such a store: the call fails exactly when the
\* dense strategy is taken (the matmul's inner sizes differ)
C13_FailsOnlyInDenseStrategy ==
    (qout.done /\ InconsistentStore(weights)) =>
        (qout.error <=> qout.strategy = "dense")

C13_Witness ==
    /\ qout.done /\ InconsistentStore(weights)
    /\ qout.strategy = "gemv" /\ ~qout.error
    /\ qarg.lead = <<LatencyRows - 1>> /\ qout.out = <<LatencyRows - 1, qarg.output_size>>

\* ------------------------------------------------------------------ C14
\* the sum over all top-k slots of token t of routing weight times the
\* selected expert's output, whichever rank holds the expert
RoutedSum(t) ==
    SumTo([k \in Slots(cfg) |->
             RoutingWeight(t, k) * ExpertLayer(selected_experts[t][k], t)],
          cfg.top_k)

\* C14: dense mode with tp_size > 1: on every rank that has returned from
\* forward, every row of the output equals the sum over all of the token's
\* selected experts of routing weight times expert output, each selected
\* expert counted once across the ranks, plus the gated shared expert output
\* counted once when a shared expert is configured.
C14_ReducedOutput ==
    \A r \in Ranks(cfg) :
        (cfg.tp_size > 1 /\ DenseMode(cfg) /\ fpc[r] = "done") =>
            \A t \in Tokens :
                final_hidden_states[r][t] =
                    RoutedSum(t)
                    + (IF cfg.shared
                       THEN SharedGateSigmoid(t) * SharedExpert(t) ELSE 0)

C14_Witness ==
    /\ cfg.tp_size > 1 /\ DenseMode(cfg) /\ cfg.shared /\ cfg.top_k = 2
    /\ \A r \in Ranks(cfg) : fpc[r] = "done"
    /\ \E t \in Tokens : selected_experts[t][1] # selected_experts[t][2]

\* ------------------------------------------------------------------ C15
\* C15: every store returned by create_weights has Qidxs of q_out_features
\* rows and of q_in_features / pack columns exactly (cols * pack =
\* q_in_features), SU of length input_size and SV of length output_size;
\* and the dense matrix of the N >= 32 strategy has q_in_features columns.
C15_StoreInvariant ==
    weights.made =>
        /\ weights.Qidxs[1] = weights.q_out_features
        /\ weights.Qidxs[2] * pack = weights.q_in_features
        /\ weights.SU = qarg.input_size
        /\ weights.SV = qarg.output_size
        /\ (qout.done /\ qout.strategy = "dense") =>
               qout.dense[2] = weights.q_in_features

\* what create_weights guarantees: the rows, the scale lengths, the padded
\* sizes, and cols = q_in_features floor-divided by pack
C15_StoreShape ==
    weights.made =>
        /\ weights.Qidxs[1] = weights.q_out_features
        /\ weights.Qidxs[2] = weights.q_in_features \div pack
        /\ weights.SU = qarg.input_size
        /\ weights.SV = qarg.output_size
        /\ weights.q_in_features >= qarg.input_size
        /\ weights.q_out_features >= qarg.output_size
        /\ (qout.done /\ qout.strategy = "dense") =>
               qout.dense = <<weights.Qidxs[1], weights.Qidxs[2] * DecompressWidth>>

C15_Witness ==
    /\ weights.made /\ ~qout.done
    /\ qarg.input_size = 4 /\ weights.q_in_features = 4
    /\ weights.Qidxs[2] = 0

\* ------------------------------- construction followed by forward calls
BlockConfigs ==
    [num_experts : 1 .. MaxFwdExperts, tp_size : 1 .. MaxRanks,
     linear_method : LinearMethods, shared : BOOLEAN,
     top_k : {1}, moe_layer : {TRUE}, rank : {0}]

\* forward is called on a rank whose block has been constructed
BlockForward(r) == ipc[r] = "done" /\ ForwardCall(r)

BlockInit ==
    /\ cfg \in BlockConfigs
    /\ ipc = [r \in Ranks(cfg) |-> "start"]
    /\ created = [r \in Ranks(cfg) |-> {}]
    /\ expert_indicies = [r \in Ranks(cfg) |-> NoList]
    /\ fpc = [r \in Ranks(cfg) |-> "idle"]
    /\ selected_experts \in [Tokens -> [Slots(cfg) -> Experts(cfg)]]
    /\ final_hidden_states = [r \in Ranks(cfg) |-> NoTensor]
    /\ ar_buf = [r \in Ranks(cfg) |-> NoTensor]
    /\ n_allreduce = [r \in Ranks(cfg) |-> 0]
    /\ IdleLoad /\ IdleQuip

BlockNext ==
    \/ \E r \in Ranks(cfg) : InitCheck(r)
    \/ \E r \in Ranks(cfg) : InitGate(r)
    \/ \E r \in Ranks(cfg) : InitShared(r)
    \/ \E r \in Ranks(cfg) : InitExperts(r)
    \/ \E r \in Ranks(cfg) : BlockForward(r)
    \/ \E r \in Ranks(cfg) : ForwardReduce(r)
    \/ \E r \in Ranks(cfg) : AllReduceComplete(r)

SpecBlock == BlockInit /\ [][BlockNext]_vars

\* ------------------------------------------------------------------ C16
\* C16: when construction passes the tp_size <= num_experts check, the shard
\* computed for every rank is non-empty, so no rank's constructor ends in
\* the "no experts assigned" error; and in dense mode the accumulator of
\* forward is a tensor (never None) where the shared output is added and
\* where the result is reduced and reshaped, so forward never fails on it.
C16_ShardNeverEmpty ==
    \A r \in Ranks(cfg) :
        /\ (ipc[r] # "start" /\ cfg.tp_size <= cfg.num_experts) =>
              /\ ipc[r] # "error"
              /\ ArraySplit(cfg.num_experts, cfg.tp_size, r) # <<>>
              /\ expert_indicies[r] # <<>>
        /\ (DenseMode(cfg) /\ fpc[r] # "idle") =>
              /\ fpc[r] # "crashed"
              /\ final_hidden_states[r] # NoTensor

C16_Witness ==
    /\ cfg.tp_size = 2 /\ DenseMode(cfg) /\ cfg.shared
    /\ \A r \in Ranks(cfg) : fpc[r] = "done"
    /\ \A t \in Tokens : selected_experts[t][1] = 0
    /\ expert_indicies[1] = <<1>>

====
